---- MODULE Spec2Model ----
(***************************************************************************)
(* Model of two programs of the repository.                                *)
(*                                                                         *)
(* PodjPasswordManager/password_manager.py: the SQLite store               *)
(* (tables master and passwords), the Fernet key file, and one process of  *)
(* the CLI at a time (PasswordGenerator.__init__ followed by show_menu).   *)
(* The files on disk outlive a process; a new process may be started after *)
(* the previous one has ended.                                             *)
(*                                                                         *)
(* The tables master, passwords and the id counter are what the database   *)
(* file holds (committed); txn is what the open connection has executed    *)
(* and not committed.                                                      *)
(*                                                                         *)
(* Text is modelled as TLA+ strings, except credential names, which are    *)
(* sequences of character codes so that ORDER BY name can be computed, and *)
(* the generator's length entry, which is a sequence of characters so that *)
(* int() can be computed.  An absent value (None, a missing file) is the   *)
(* empty sequence <<>> and a present one the one-element sequence <<v>>.   *)
(*                                                                         *)
(* ProjDesctopDB (main.py, database.py, notifications.py, gui.py): the     *)
(* table reminders, the clock, the GUI thread's handlers and the monitor   *)
(* thread of NotificationManager, one step per database statement.  The    *)
(* two programs share nothing; each specification runs one of them and     *)
(* leaves the other in its initial state.                                  *)
(***************************************************************************)
EXTENDS Integers, Sequences, FiniteSets, TLC

VARIABLES
    master,      \* table master: set of rows [id, password_hash, salt]
    passwords,   \* table passwords: set of rows [id, name, login, password_encrypted]
    seq,         \* sqlite_sequence of passwords: the largest id AUTOINCREMENT has given
    keyFile,     \* the file KEY_FILE: <<>> when absent, <<key>> otherwise
    txn,         \* self.conn: <<>>, or <<the tables as changed by uncommitted statements>>
    pc,          \* where the process is: off, setup, auth, menu, exited, locked, crashed
    key,         \* EncryptionManager.key of the running process: <<>> or <<key>>
    failed,      \* wrong entries so far in the running loop of authenticate
    p1, p2,      \* the two entries read by the last round of setup_master_password
    pwd,         \* the entry read by the last iteration of authenticate
    verified,    \* verify_master_password has returned True in this process
    op,          \* the menu operation the process executed last
    arg,         \* the entries that operation read: name, login, password, length
    out,         \* what that operation printed
    error,       \* the exception that ended the process, "" when none
    masterPlain, \* history: the password handed to the last set_master_password
    entered,     \* history: per name, the login and secret of the last add that returned
    wrong,       \* history: wrong master-password entries over all processes (SpecRuns)
    reminders,   \* table reminders: set of rows [id, title, description, due_time, status]
    rseq,        \* sqlite_sequence of reminders: the largest id AUTOINCREMENT has given
    now,         \* datetime.now(), in minutes
    rpc,         \* the reminder process: off, mainloop, closed
    running,     \* NotificationManager.running
    mpc,         \* where the monitor thread is: off, while, mark, select, for, update,
                 \* done (the loop has ended), dead (an exception has ended the thread)
    due,         \* the rows of due in _monitor not yet iterated over
    tree,        \* the rows shown in ReminderGUI.tree
    statusbar,   \* the count shown in ReminderGUI.status
    shown        \* history: per id, the notifications shown for it in this process

pvars == <<master, passwords, seq, keyFile, txn, pc, key, failed, p1, p2, pwd, verified,
           op, arg, out, error, masterPlain, entered, wrong>>

rvars == <<reminders, rseq, now, rpc, running, mpc, due, tree, statusbar, shown>>

vars == <<pvars, rvars>>

disk == <<master, passwords, seq, keyFile>>

(***************************************************************************)
(* Bounds and input alphabets                                              *)
(***************************************************************************)
\* AUTOINCREMENT ids handed out in a behaviour
MaxInserts == 2
\* AUTOINCREMENT ids of reminders handed out in a behaviour
MaxReminders == 2
\* the clock runs from minute 1 to minute MaxTime
MaxTime == 2
\* notifications counted per reminder, the count stops here
MaxShown == 2

\* credential names, as sequences of character codes
Names == {<<2>>, <<1, 2>>}
Logins == {"alice", "bob"}
Secrets == {"p@ss", "hunter2"}
\* entries at the master-password prompts
MasterEntries == {"", "a", "ab"}
\* outcomes of secrets.token_hex(16), fixed length
Salts == {"b0", "0b"}
\* outcomes of Fernet.generate_key()
Keys == {"k1", "k2"}
\* outcomes of the random IV of one Fernet.encrypt call
IVs == {"iv1", "iv2"}

None == <<>>
Some(v) == <<v>>
The(o) == o[1]

(***************************************************************************)
(* DatabaseManager                                                         *)
(***************************************************************************)
\* Mutation of _hash_password: the password is left out of the hashed text.
_hash_password_salt_only(password, salt) == <<"sha256", salt>>

\* hashlib.sha256((password + salt).encode()).hexdigest(); the digest is kept
\* symbolic, one digest per input text.
_hash_password(password, salt) == <<"sha256", password \o salt>>

\* Mutation of set_master_password: the text of the password, not its digest,
\* is stored in the password_hash column.
set_master_password_plain(table, password, salt) ==
    {r \in table : r.id # 1}
        \cup {[id |-> 1, password_hash |-> <<"text", password>>, salt |-> salt]}

\* INSERT OR REPLACE INTO master (id, ...) VALUES (1, ?, ?): the row in conflict
\* on the primary key is deleted, then the new row is inserted.
set_master_password(table, password, salt) ==
    {r \in table : r.id # 1}
        \cup {[id |-> 1, password_hash |-> _hash_password(password, salt), salt |-> salt]}

\* SELECT password_hash, salt FROM master WHERE id = 1 ... fetchone()
get_master_password(table) ==
    LET rows == {r \in table : r.id = 1}
    IN  IF rows = {} THEN None
        ELSE Some(CHOOSE r \in rows : TRUE)

verify_master_password(table, password) ==
    LET row == get_master_password(table)
    IN  IF row = None THEN FALSE
        ELSE _hash_password(password, The(row).salt) = The(row).password_hash

\* Mutation of UniqueViolation: the column is declared without UNIQUE.
UniqueViolation_not_declared(table, name) == FALSE

\* the UNIQUE constraint on passwords.name, as checked by INSERT
UniqueViolation(table, name) == \E r \in table : r.name = name

\* INSERT INTO passwords (name, login, password_encrypted) VALUES (?, ?, ?)
\* with id given by AUTOINCREMENT; the caller has checked the constraint.
db_add_password(table, last, name, login, encrypted_password) ==
    table \cup {[id |-> last + 1, name |-> name, login |-> login,
                 password_encrypted |-> encrypted_password]}

\* SELECT * FROM passwords WHERE name = ? ... fetchone(): the first row in rowid order
db_get_password(table, name) ==
    LET rows == {r \in table : r.name = name}
    IN  IF rows = {} THEN None
        ELSE Some(CHOOSE r \in rows : \A q \in rows : r.id <= q.id)

\* byte-wise comparison of two texts (SQLite's BINARY collation): a < b
RECURSIVE TextLess(_, _)
TextLess(a, b) ==
    IF b = <<>> THEN FALSE
    ELSE IF a = <<>> THEN TRUE
    ELSE IF Head(a) # Head(b) THEN Head(a) < Head(b)
    ELSE TextLess(Tail(a), Tail(b))

\* Mutation of RowBefore: the query has no ORDER BY, rows come in rowid order.
RowBefore_rowid(r, q) == r.id < q.id

\* rows of a table in ORDER BY name (ties in rowid order)
RowBefore(r, q) == TextLess(r.name, q.name) \/ (r.name = q.name /\ r.id < q.id)

RECURSIVE OrderByName(_)
OrderByName(rows) ==
    IF rows = {} THEN <<>>
    ELSE LET first == CHOOSE r \in rows : \A q \in rows \ {r} : RowBefore(r, q)
         IN  <<first>> \o OrderByName(rows \ {first})

\* SELECT name, login FROM passwords ORDER BY name ... fetchall()
db_list_passwords(table) ==
    LET rows == OrderByName(table)
    IN  [i \in 1..Len(rows) |-> [name |-> rows[i].name, login |-> rows[i].login]]

\* Mutation of db_delete_password: the WHERE clause is missing.
db_delete_password_no_where(table, name) == {}

\* DELETE FROM passwords WHERE name = ?
db_delete_password(table, name) == {r \in table : r.name # name}

(***************************************************************************)
(* EncryptionManager                                                       *)
(***************************************************************************)
\* Fernet(key).encrypt(data.encode()): a token bound to the key, with a fresh IV
encrypt(k, data, iv) == [key |-> k, iv |-> iv, data |-> data]

\* Fernet(key).decrypt(token) raises InvalidToken unless the token was made
\* under the same key
InvalidToken(k, token) == token.key # k

decrypt(k, token) == token.data

(***************************************************************************)
(* The connection                                                          *)
(***************************************************************************)
\* what a statement executed on self.conn reads: the file, or the open
\* transaction's own changes
conn ==
    IF txn = None THEN [master |-> master, passwords |-> passwords, seq |-> seq]
    ELSE The(txn)

\* Mutation of commit: self.conn.commit() is missing, the changes stay in the
\* open transaction.
commit_missing(v) ==
    /\ txn' = Some(v)
    /\ UNCHANGED <<master, passwords, seq>>

\* self.conn.commit() after statements that left the tables as v
commit(v) ==
    /\ master' = v.master
    /\ passwords' = v.passwords
    /\ seq' = v.seq
    /\ txn' = None

(***************************************************************************)
(* Initial state: a fresh install, no process running                      *)
(***************************************************************************)
NoOut == [kind |-> "", login |-> "", password |-> "", rows |-> <<>>, generated |-> <<>>]

Msg(kind) == [NoOut EXCEPT !.kind = kind]

NoArg == [name |-> <<>>, login |-> "", password |-> "", entry |-> <<>>]

NameArg(name) == [NoArg EXCEPT !.name = name]

Init ==
    /\ master = {}
    /\ passwords = {}
    /\ seq = 0
    /\ keyFile = None
    /\ txn = None
    /\ pc = "off"
    /\ key = None
    /\ failed = 0
    /\ p1 = ""
    /\ p2 = ""
    /\ pwd = ""
    /\ verified = FALSE
    /\ op = ""
    /\ arg = NoArg
    /\ out = NoOut
    /\ error = ""
    /\ masterPlain = ""
    /\ entered = [n \in Names |-> None]
    /\ wrong = 0
    /\ reminders = {}
    /\ rseq = 0
    /\ now = 1
    /\ rpc = "off"
    /\ running = FALSE
    /\ mpc = "off"
    /\ due = <<>>
    /\ tree = <<>>
    /\ statusbar = 0
    /\ shown = [i \in 1..MaxReminders |-> 0]

(***************************************************************************)
(* PasswordGenerator.__init__                                              *)
(***************************************************************************)
Ended == pc \in {"exited", "locked", "crashed"}

\* Mutation of Start: setup_master_password lacks the early return.
Start_always_setup ==
    /\ pc = "off" \/ Ended
    /\ IF keyFile # None
       THEN /\ key' = keyFile
            /\ UNCHANGED keyFile
       ELSE \E k \in Keys :
            /\ key' = Some(k)
            /\ keyFile' = Some(k)
    /\ txn' = None
    /\ pc' = "setup"
    /\ failed' = 0
    /\ p1' = ""
    /\ p2' = ""
    /\ pwd' = ""
    /\ verified' = FALSE
    /\ op' = ""
    /\ arg' = NoArg
    /\ out' = NoOut
    /\ error' = ""
    /\ UNCHANGED <<master, passwords, seq, masterPlain, entered, wrong>>
    /\ UNCHANGED rvars

\* Mutation of Start: the key is generated and written whether or not the
\* key file exists.
Start_new_key ==
    /\ pc = "off" \/ Ended
    /\ \E k \in Keys :
          /\ key' = Some(k)
          /\ keyFile' = Some(k)
    /\ txn' = None
    /\ pc' = IF get_master_password(master) # None THEN "auth" ELSE "setup"
    /\ failed' = 0
    /\ p1' = ""
    /\ p2' = ""
    /\ pwd' = ""
    /\ verified' = FALSE
    /\ op' = ""
    /\ arg' = NoArg
    /\ out' = NoOut
    /\ error' = ""
    /\ UNCHANGED <<master, passwords, seq, masterPlain, entered, wrong>>
    /\ UNCHANGED rvars

\* Mutation of Start: the count of wrong entries is kept from the
\* process before.
Start_keeps_failed ==
    /\ pc = "off" \/ Ended
    /\ IF keyFile # None
       THEN /\ key' = keyFile
            /\ UNCHANGED keyFile
       ELSE \E k \in Keys :
            /\ key' = Some(k)
            /\ keyFile' = Some(k)
    /\ txn' = None
    /\ pc' = IF get_master_password(master) # None THEN "auth" ELSE "setup"
    /\ failed' = failed
    /\ p1' = ""
    /\ p2' = ""
    /\ pwd' = ""
    /\ verified' = FALSE
    /\ op' = ""
    /\ arg' = NoArg
    /\ out' = NoOut
    /\ error' = ""
    /\ UNCHANGED <<master, passwords, seq, masterPlain, entered, wrong>>
    /\ UNCHANGED rvars

\* A process starts: DatabaseManager() opens the store (CREATE TABLE IF NOT
\* EXISTS keeps existing rows; what an earlier connection left uncommitted is
\* gone), EncryptionManager() loads or creates the key, setup_master_password
\* returns at once when a master row exists.
Start ==
    /\ pc = "off" \/ Ended
    /\ IF keyFile # None
       THEN /\ key' = keyFile
            /\ UNCHANGED keyFile
       ELSE \E k \in Keys :
            /\ key' = Some(k)
            /\ keyFile' = Some(k)
    /\ txn' = None
    /\ pc' = IF get_master_password(master) # None THEN "auth" ELSE "setup"
    /\ failed' = 0
    /\ p1' = ""
    /\ p2' = ""
    /\ pwd' = ""
    /\ verified' = FALSE
    /\ op' = ""
    /\ arg' = NoArg
    /\ out' = NoOut
    /\ error' = ""
    /\ UNCHANGED <<master, passwords, seq, masterPlain, entered, wrong>>
    /\ UNCHANGED rvars

\* Mutation of setup_master_password: the test is p1 == p2, without "p1 and".
setup_master_password_accepts_empty(e1, e2) ==
    /\ pc = "setup"
    /\ p1' = e1
    /\ p2' = e2
    /\ IF e1 = e2
       THEN /\ \E salt \in Salts :
                  commit([conn EXCEPT !.master = set_master_password(conn.master, e1, salt)])
            /\ masterPlain' = e1
            /\ out' = Msg("master saved")
            /\ pc' = "auth"
       ELSE /\ out' = Msg("mismatch")
            /\ UNCHANGED <<master, passwords, seq, txn, masterPlain, pc>>
    /\ UNCHANGED <<keyFile, key, failed, pwd, verified, op, arg, error, entered, wrong>>
    /\ UNCHANGED rvars

\* One round of the loop of setup_master_password: two entries are read.
setup_master_password(e1, e2) ==
    /\ pc = "setup"
    /\ p1' = e1
    /\ p2' = e2
    /\ IF e1 # "" /\ e1 = e2
       THEN /\ \E salt \in Salts :
                  commit([conn EXCEPT !.master = set_master_password(conn.master, e1, salt)])
            /\ masterPlain' = e1
            /\ out' = Msg("master saved")
            /\ pc' = "auth"
       ELSE /\ out' = Msg("mismatch")
            /\ UNCHANGED <<master, passwords, seq, txn, masterPlain, pc>>
    /\ UNCHANGED <<keyFile, key, failed, pwd, verified, op, arg, error, entered, wrong>>
    /\ UNCHANGED rvars

\* for _ in range(3)
MaxAttempts == 3

\* Mutation of authenticate: the raise after the loop is missing, so the
\* constructor returns after the third wrong entry.
authenticate_no_raise(e) ==
    /\ pc = "auth"
    /\ failed < 3
    /\ pwd' = e
    /\ IF verify_master_password(conn.master, e)
       THEN /\ verified' = TRUE
            /\ pc' = "menu"
            /\ failed' = 0
            /\ UNCHANGED <<out, error>>
       ELSE /\ failed' = failed + 1
            /\ out' = Msg("wrong password")
            /\ pc' = IF failed + 1 = 3 THEN "menu" ELSE pc
            /\ UNCHANGED <<verified, error>>
    /\ UNCHANGED <<master, passwords, seq, keyFile, txn, key, p1, p2, op, arg,
                   masterPlain, entered>>
    /\ UNCHANGED rvars

\* Mutation of authenticate: range(2) instead of range(3).
authenticate_two_attempts(e) ==
    /\ pc = "auth"
    /\ failed < 2
    /\ pwd' = e
    /\ IF verify_master_password(conn.master, e)
       THEN /\ verified' = TRUE
            /\ pc' = "menu"
            /\ failed' = 0
            /\ UNCHANGED <<out, error>>
       ELSE /\ failed' = failed + 1
            /\ out' = Msg("wrong password")
            /\ IF failed + 1 = 2
               THEN pc' = "locked" /\ error' = "SystemExit"
               ELSE UNCHANGED <<pc, error>>
            /\ UNCHANGED verified
    /\ UNCHANGED <<master, passwords, seq, keyFile, txn, key, p1, p2, op, arg,
                   masterPlain, entered>>
    /\ UNCHANGED rvars

\* One iteration of the loop of authenticate; the iteration that makes the
\* third wrong entry falls out of the loop into raise SystemExit.  The loop
\* counter ends with the loop when authenticate returns.
authenticate(e) ==
    /\ pc = "auth"
    /\ failed < MaxAttempts
    /\ pwd' = e
    /\ IF verify_master_password(conn.master, e)
       THEN /\ verified' = TRUE
            /\ pc' = "menu"
            /\ failed' = 0
            /\ UNCHANGED <<out, error>>
       ELSE /\ failed' = failed + 1
            /\ out' = Msg("wrong password")
            /\ IF failed + 1 = MaxAttempts
               THEN pc' = "locked" /\ error' = "SystemExit"
               ELSE UNCHANGED <<pc, error>>
            /\ UNCHANGED verified
    /\ UNCHANGED <<master, passwords, seq, keyFile, txn, key, p1, p2, op, arg,
                   masterPlain, entered>>
    /\ UNCHANGED rvars

(***************************************************************************)
(* The menu operations of PasswordGenerator.  An exception raised in one   *)
(* of them meets no handler in show_menu or in __main__, so it ends the    *)
(* process.                                                                *)
(***************************************************************************)
\* Mutation of add_password: the login is encrypted in place of the password.
add_password_encrypts_login(name, login, password, iv) ==
    /\ pc = "menu"
    /\ UniqueViolation(conn.passwords, name) \/ conn.seq < MaxInserts
    /\ op' = "add"
    /\ arg' = [NoArg EXCEPT !.name = name, !.login = login, !.password = password]
    /\ IF UniqueViolation(conn.passwords, name)
       THEN /\ pc' = "crashed"
            /\ error' = "IntegrityError"
            /\ out' = NoOut
            /\ UNCHANGED <<master, passwords, seq, txn, entered>>
       ELSE /\ commit([conn EXCEPT
                          !.passwords = db_add_password(conn.passwords, conn.seq, name, login,
                                                        encrypt(The(key), login, iv)),
                          !.seq = conn.seq + 1])
            /\ entered' = [entered EXCEPT ![name] =
                              Some([login |-> login, secret |-> password])]
            /\ out' = Msg("saved")
            /\ UNCHANGED <<pc, error>>
    /\ UNCHANGED <<keyFile, key, failed, p1, p2, pwd, verified, masterPlain, wrong>>
    /\ UNCHANGED rvars

add_password(name, login, password, iv) ==
    /\ pc = "menu"
    /\ UniqueViolation(conn.passwords, name) \/ conn.seq < MaxInserts
    /\ op' = "add"
    /\ arg' = [NoArg EXCEPT !.name = name, !.login = login, !.password = password]
    /\ IF UniqueViolation(conn.passwords, name)
       THEN \* sqlite3.IntegrityError: the statement inserts nothing
            /\ pc' = "crashed"
            /\ error' = "IntegrityError"
            /\ out' = NoOut
            /\ UNCHANGED <<master, passwords, seq, txn, entered>>
       ELSE /\ commit([conn EXCEPT
                          !.passwords = db_add_password(conn.passwords, conn.seq, name, login,
                                                        encrypt(The(key), password, iv)),
                          !.seq = conn.seq + 1])
            /\ entered' = [entered EXCEPT ![name] =
                              Some([login |-> login, secret |-> password])]
            /\ out' = Msg("saved")
            /\ UNCHANGED <<pc, error>>
    /\ UNCHANGED <<keyFile, key, failed, p1, p2, pwd, verified, masterPlain, wrong>>
    /\ UNCHANGED rvars

\* Mutation of get_password: the record is removed once it has been shown.
get_password_removes_row(name) ==
    /\ pc = "menu"
    /\ op' = "get"
    /\ arg' = NameArg(name)
    /\ LET row == db_get_password(conn.passwords, name)
       IN  IF row = None
           THEN /\ out' = Msg("not found")
                /\ UNCHANGED <<master, passwords, seq, txn, pc, error>>
           ELSE IF InvalidToken(The(key), The(row).password_encrypted)
           THEN /\ pc' = "crashed"
                /\ error' = "InvalidToken"
                /\ out' = NoOut
                /\ UNCHANGED <<master, passwords, seq, txn>>
           ELSE /\ out' = [NoOut EXCEPT
                              !.kind = "found",
                              !.login = The(row).login,
                              !.password = decrypt(The(key), The(row).password_encrypted)]
                /\ commit([conn EXCEPT
                              !.passwords = db_delete_password(conn.passwords, name)])
                /\ UNCHANGED <<pc, error>>
    /\ UNCHANGED <<keyFile, key, failed, p1, p2, pwd, verified, masterPlain, entered, wrong>>
    /\ UNCHANGED rvars

get_password(name) ==
    /\ pc = "menu"
    /\ op' = "get"
    /\ arg' = NameArg(name)
    /\ LET row == db_get_password(conn.passwords, name)
       IN  IF row = None
           THEN /\ out' = Msg("not found")
                /\ UNCHANGED <<pc, error>>
           ELSE IF InvalidToken(The(key), The(row).password_encrypted)
           THEN /\ pc' = "crashed"
                /\ error' = "InvalidToken"
                /\ out' = NoOut
           ELSE /\ out' = [NoOut EXCEPT
                              !.kind = "found",
                              !.login = The(row).login,
                              !.password = decrypt(The(key), The(row).password_encrypted)]
                /\ UNCHANGED <<pc, error>>
    /\ UNCHANGED <<master, passwords, seq, keyFile, txn, key, failed, p1, p2, pwd,
                   verified, masterPlain, entered, wrong>>
    /\ UNCHANGED rvars

list_passwords ==
    /\ pc = "menu"
    /\ op' = "list"
    /\ arg' = NoArg
    /\ LET rows == db_list_passwords(conn.passwords)
       IN  out' = IF rows = <<>> THEN Msg("empty")
                  ELSE [NoOut EXCEPT !.kind = "list", !.rows = rows]
    /\ UNCHANGED <<master, passwords, seq, keyFile, txn, pc, key, failed, p1, p2, pwd,
                   verified, error, masterPlain, entered, wrong>>
    /\ UNCHANGED rvars

delete_password(name) ==
    /\ pc = "menu"
    /\ op' = "delete"
    /\ arg' = NameArg(name)
    /\ commit([conn EXCEPT !.passwords = db_delete_password(conn.passwords, name)])
    /\ entered' = [entered EXCEPT ![name] = None]
    /\ out' = Msg("deleted")
    /\ UNCHANGED <<keyFile, pc, key, failed, p1, p2, pwd, verified, error, masterPlain,
                   wrong>>
    /\ UNCHANGED rvars

\* string.ascii_lowercase + string.ascii_uppercase + string.digits + "!@#$%^&*()"
chars ==
    <<"a", "b", "c", "d", "e", "f", "g", "h", "i", "j", "k", "l", "m",
      "n", "o", "p", "q", "r", "s", "t", "u", "v", "w", "x", "y", "z",
      "A", "B", "C", "D", "E", "F", "G", "H", "I", "J", "K", "L", "M",
      "N", "O", "P", "Q", "R", "S", "T", "U", "V", "W", "X", "Y", "Z",
      "0", "1", "2", "3", "4", "5", "6", "7", "8", "9",
      "!", "@", "#", "$", "%", "^", "&", "*", "(", ")">>

DefaultLength == 16

Digits == <<"0", "1", "2", "3", "4", "5", "6", "7", "8", "9">>

IsDigit(c) == \E d \in 1..Len(Digits) : Digits[d] = c

DigitValue(c) == (CHOOSE d \in 1..Len(Digits) : Digits[d] = c) - 1

RECURSIVE DecimalValue(_)
DecimalValue(s) ==
    IF s = <<>> THEN 0
    ELSE 10 * DecimalValue(SubSeq(s, 1, Len(s) - 1)) + DigitValue(s[Len(s)])

Unsigned(s) == IF s # <<>> /\ Head(s) \in {"-", "+"} THEN Tail(s) ELSE s

\* int(text) raises ValueError unless text is an optional sign and digits
ValueError(s) == Unsigned(s) = <<>> \/ \E i \in 1..Len(Unsigned(s)) : ~IsDigit(Unsigned(s)[i])

int(s) == IF s # <<>> /\ Head(s) = "-" THEN 0 - DecimalValue(Unsigned(s))
          ELSE DecimalValue(Unsigned(s))

\* entries at the length prompt, as sequences of characters
LengthEntries == {<<>>, <<"2">>, <<"1", "2">>, <<"0">>, <<"-", "1">>, <<"x">>}

\* sampled outcomes of the random source behind secrets.choice: stream k gives
\* the index of the character drawn at position i
MaxStreams == 2

Draw(k, i) == ((k * 31 + i * (6 + k)) % Len(chars)) + 1

\* Mutation of generate_password_interactive: range(length - 1).
generate_password_interactive_short(entry, k) ==
    /\ pc = "menu"
    /\ op' = "generate"
    /\ arg' = [NoArg EXCEPT !.entry = entry]
    /\ IF entry # <<>> /\ ValueError(entry)
       THEN /\ pc' = "crashed"
            /\ error' = "ValueError"
            /\ out' = NoOut
       ELSE LET length == IF entry = <<>> THEN DefaultLength ELSE int(entry)
            IN  /\ out' = [NoOut EXCEPT
                              !.kind = "generated",
                              !.generated = [i \in 1..(length - 1) |-> chars[Draw(k, i)]]]
                /\ UNCHANGED <<pc, error>>
    /\ UNCHANGED <<master, passwords, seq, keyFile, txn, key, failed, p1, p2, pwd,
                   verified, masterPlain, entered, wrong>>
    /\ UNCHANGED rvars

generate_password_interactive(entry, k) ==
    /\ pc = "menu"
    /\ op' = "generate"
    /\ arg' = [NoArg EXCEPT !.entry = entry]
    /\ IF entry # <<>> /\ ValueError(entry)
       THEN /\ pc' = "crashed"
            /\ error' = "ValueError"
            /\ out' = NoOut
       ELSE LET length == IF entry = <<>> THEN DefaultLength ELSE int(entry)
            IN  /\ out' = [NoOut EXCEPT
                              !.kind = "generated",
                              !.generated = [i \in 1..length |-> chars[Draw(k, i)]]]
                /\ UNCHANGED <<pc, error>>
    /\ UNCHANGED <<master, passwords, seq, keyFile, txn, key, failed, p1, p2, pwd,
                   verified, masterPlain, entered, wrong>>
    /\ UNCHANGED rvars

\* choice "0": break, show_menu returns and the process ends normally
exit_menu ==
    /\ pc = "menu"
    /\ op' = "exit"
    /\ arg' = NoArg
    /\ out' = NoOut
    /\ pc' = "exited"
    /\ UNCHANGED <<master, passwords, seq, keyFile, txn, key, failed, p1, p2, pwd,
                   verified, error, masterPlain, entered, wrong>>
    /\ UNCHANGED rvars

\* any other choice
invalid_choice ==
    /\ pc = "menu"
    /\ op' = "invalid"
    /\ arg' = NoArg
    /\ out' = Msg("invalid choice")
    /\ UNCHANGED <<master, passwords, seq, keyFile, txn, pc, key, failed, p1, p2, pwd,
                   verified, error, masterPlain, entered, wrong>>
    /\ UNCHANGED rvars

\* an iteration of authenticate, the wrong entries of earlier processes not counted
Attempt(e) == authenticate(e) /\ UNCHANGED wrong

Next ==
    \/ Start
    \/ \E e1 \in MasterEntries, e2 \in MasterEntries : setup_master_password(e1, e2)
    \/ \E e \in MasterEntries : Attempt(e)
    \/ \E n \in Names, l \in Logins, s \in Secrets, iv \in IVs : add_password(n, l, s, iv)
    \/ \E n \in Names : get_password(n)
    \/ list_passwords
    \/ \E n \in Names : delete_password(n)
    \/ \E e \in LengthEntries, k \in 1..MaxStreams : generate_password_interactive(e, k)
    \/ exit_menu
    \/ invalid_choice

Spec == Init /\ [][Next]_vars

(***************************************************************************)
(* The process stopped from outside                                        *)
(***************************************************************************)
Running == pc \in {"setup", "auth", "menu"}

\* The process is killed while it waits at a prompt, between two operations:
\* its memory and its connection are gone, the files stay as they are.
Kill ==
    /\ Running
    /\ pc' = "off"
    /\ txn' = None
    /\ key' = None
    /\ failed' = 0
    /\ p1' = ""
    /\ p2' = ""
    /\ pwd' = ""
    /\ verified' = FALSE
    /\ op' = ""
    /\ arg' = NoArg
    /\ out' = NoOut
    /\ error' = ""
    /\ UNCHANGED <<master, passwords, seq, keyFile, masterPlain, entered, wrong>>
    /\ UNCHANGED rvars

NextKill == Next \/ Kill

SpecKill == Init /\ [][NextKill]_vars

(***************************************************************************)
(* The authentication gate over many processes, the wrong entries counted  *)
(***************************************************************************)
\* wrong entries counted, the count stops here
MaxWrong == 4

CountedAttempt(e) ==
    /\ authenticate(e)
    /\ wrong' = IF failed' = failed + 1 /\ wrong < MaxWrong THEN wrong + 1 ELSE wrong

NextRuns ==
    \/ Start
    \/ \E e1 \in MasterEntries, e2 \in MasterEntries : setup_master_password(e1, e2)
    \/ \E e \in MasterEntries : CountedAttempt(e)
    \/ exit_menu

SpecRuns == Init /\ [][NextRuns]_vars

(***************************************************************************)
(* ProjDesctopDB/database.py: ReminderDatabase                             *)
(***************************************************************************)
\* the three status texts, transliterated
Ozhidaet == "Ozhidaet"
Prosrocheno == "Prosrocheno"
Gotovo == "Gotovo"

\* strftime("%Y-%m-%d %H:%M") of minute t: fixed width, zero padded; the text
\* is the sequence of the character codes of its digits
strftime(t) == <<48 + (t \div 10), 48 + (t % 10)>>

\* ReminderDatabase._now()
_now == strftime(now)

\* datetime.strptime(s, "%Y-%m-%d %H:%M") raises: s is not one or two digits
\* (a field without its leading zero is accepted)
strptime_raises(s) ==
    \/ Len(s) \notin {1, 2}
    \/ \E i \in 1..Len(s) : s[i] \notin 48..57

\* the minute datetime.strptime reads from a text it accepts
RECURSIVE strptime(_)
strptime(s) ==
    IF s = <<>> THEN 0
    ELSE strptime(SubSeq(s, 1, Len(s) - 1)) * 10 + (s[Len(s)] - 48)

\* INSERT INTO reminders (...) VALUES (?, ?, ?, 'Ozhidaet', ?); created_at is
\* written and never read, it is left out of the row
db_add_reminder(table, last, title, description, due_time) ==
    table \cup {[id |-> last + 1, title |-> title, description |-> description,
                 due_time |-> due_time, status |-> Ozhidaet]}

\* rows in ORDER BY due_time (ties in rowid order)
DueBefore(r, q) ==
    TextLess(r.due_time, q.due_time) \/ (r.due_time = q.due_time /\ r.id < q.id)

RECURSIVE OrderByDueTime(_)
OrderByDueTime(rows) ==
    IF rows = {} THEN <<>>
    ELSE LET first == CHOOSE r \in rows : \A q \in rows \ {r} : DueBefore(r, q)
         IN  <<first>> \o OrderByDueTime(rows \ {first})

\* SELECT * FROM reminders ORDER BY due_time
get_all_reminders(table) == OrderByDueTime(table)

\* rows in rowid order, the order of a scan without ORDER BY
RECURSIVE OrderByRowid(_)
OrderByRowid(rows) ==
    IF rows = {} THEN <<>>
    ELSE LET first == CHOOSE r \in rows : \A q \in rows : r.id <= q.id
         IN  <<first>> \o OrderByRowid(rows \ {first})

\* Mutation of get_due_reminders: the WHERE clause does not test the status.
get_due_reminders_any_status(table, t) ==
    OrderByRowid({r \in table : ~TextLess(t, r.due_time)})

\* SELECT * FROM reminders WHERE status='Ozhidaet' AND due_time <= ?
get_due_reminders(table, t) ==
    OrderByRowid({r \in table : r.status = Ozhidaet /\ ~TextLess(t, r.due_time)})

\* UPDATE reminders SET status=? WHERE id=?
update_status(table, reminder_id, status) ==
    {IF r.id = reminder_id THEN [r EXCEPT !.status = status] ELSE r : r \in table}

\* DELETE FROM reminders WHERE id=?
db_delete_reminder(table, reminder_id) == {r \in table : r.id # reminder_id}

\* UPDATE reminders SET status='Prosrocheno' WHERE status='Ozhidaet' AND due_time < ?
mark_overdue(table, overdue_time) ==
    {IF r.status = Ozhidaet /\ TextLess(r.due_time, overdue_time)
        THEN [r EXCEPT !.status = Prosrocheno] ELSE r : r \in table}

\* SELECT COUNT(*) FROM reminders
get_reminders_count(table) == Cardinality(table)

(***************************************************************************)
(* ProjDesctopDB/main.py and gui.py: the process and the GUI thread        *)
(***************************************************************************)
Titles == {"", "call"}
Descriptions == {"mum"}
\* entries at the date prompt: "00", "2" and "x"
DueEntries == {<<48, 48>>, <<50>>, <<120>>}
\* the buttons "1 min" and "15 min" (the button "5 min" differs in the
\* number only)
QuickMinutes == {1, 15}

\* ReminderGUI.refresh_reminders: the columns id, title, time, status
refresh_reminders(table) ==
    LET rows == get_all_reminders(table)
    IN  [i \in 1..Len(rows) |->
            <<rows[i].id, rows[i].title, rows[i].due_time, rows[i].status>>]

\* main(): the database is opened, the monitor thread started, the window
\* built; a process started after an earlier one was closed finds the
\* earlier one gone, its daemon thread included
main ==
    /\ rpc \in {"off", "closed"}
    /\ rpc' = "mainloop"
    /\ running' = TRUE
    /\ mpc' = "while"
    /\ due' = <<>>
    /\ tree' = refresh_reminders(reminders)
    /\ statusbar' = get_reminders_count(reminders)
    /\ shown' = [i \in 1..MaxReminders |-> 0]
    /\ UNCHANGED <<reminders, rseq, now>>
    /\ UNCHANGED pvars

\* ReminderGUI.add_reminder
add_reminder(title, desc, entry) ==
    /\ rpc = "mainloop"
    /\ rseq < MaxReminders
    /\ IF title = "" \/ strptime_raises(entry)
       THEN UNCHANGED <<reminders, rseq, tree, statusbar>>
       ELSE /\ reminders' = db_add_reminder(reminders, rseq, title, desc, entry)
            /\ rseq' = rseq + 1
            /\ tree' = refresh_reminders(reminders')
            /\ statusbar' = get_reminders_count(reminders')
    /\ UNCHANGED <<now, rpc, running, mpc, due, shown>>
    /\ UNCHANGED pvars

\* ReminderGUI.set_quick_time
set_quick_time(minutes) ==
    /\ rpc = "mainloop"
    /\ rseq < MaxReminders
    /\ reminders' = db_add_reminder(reminders, rseq, "Bystroe napominanie", "",
                                    strftime(now + minutes))
    /\ rseq' = rseq + 1
    /\ tree' = refresh_reminders(reminders')
    /\ statusbar' = get_reminders_count(reminders')
    /\ UNCHANGED <<now, rpc, running, mpc, due, shown>>
    /\ UNCHANGED pvars

\* ReminderGUI.mark_as_done
mark_as_done(reminder_id) ==
    /\ rpc = "mainloop"
    /\ reminders' = update_status(reminders, reminder_id, Gotovo)
    /\ tree' = refresh_reminders(reminders')
    /\ UNCHANGED <<rseq, now, rpc, running, mpc, due, statusbar, shown>>
    /\ UNCHANGED pvars

\* ReminderGUI.delete_reminder
delete_reminder(reminder_id) ==
    /\ rpc = "mainloop"
    /\ reminders' = db_delete_reminder(reminders, reminder_id)
    /\ tree' = refresh_reminders(reminders')
    /\ statusbar' = get_reminders_count(reminders')
    /\ UNCHANGED <<rseq, now, rpc, running, mpc, due, shown>>
    /\ UNCHANGED pvars

\* ReminderGUI.on_closing: on "yes" the monitor is told to stop, the window is
\* destroyed, mainloop and main return; the daemon thread runs on until the
\* interpreter is gone
on_closing(yes) ==
    /\ rpc = "mainloop"
    /\ IF yes
       THEN running' = FALSE /\ rpc' = "closed"
       ELSE UNCHANGED <<running, rpc>>
    /\ UNCHANGED <<reminders, rseq, now, mpc, due, tree, statusbar, shown>>
    /\ UNCHANGED pvars

\* a minute passes
Tick ==
    /\ now < MaxTime
    /\ now' = now + 1
    /\ UNCHANGED <<reminders, rseq, rpc, running, mpc, due, tree, statusbar, shown>>
    /\ UNCHANGED pvars

(***************************************************************************)
(* ProjDesctopDB/notifications.py: NotificationManager._monitor            *)
(***************************************************************************)
\* while self.running:
monitor_while ==
    /\ mpc = "while"
    /\ mpc' = IF running THEN "mark" ELSE "done"
    /\ UNCHANGED <<reminders, rseq, now, rpc, running, due, tree, statusbar, shown>>
    /\ UNCHANGED pvars

\* self.db.mark_overdue()
monitor_mark_overdue ==
    /\ mpc = "mark"
    /\ reminders' = mark_overdue(reminders, strftime(now - 1))
    /\ mpc' = "select"
    /\ UNCHANGED <<rseq, now, rpc, running, due, tree, statusbar, shown>>
    /\ UNCHANGED pvars

\* due = self.db.get_due_reminders()
monitor_get_due_reminders ==
    /\ mpc = "select"
    /\ due' = get_due_reminders(reminders, _now)
    /\ mpc' = "for"
    /\ UNCHANGED <<reminders, rseq, now, rpc, running, tree, statusbar, shown>>
    /\ UNCHANGED pvars

\* for r in due: self._show_notification(r["title"], r["description"]) returns,
\* the toast or the popup is shown
_show_notification ==
    /\ mpc = "for"
    /\ due # <<>>
    /\ shown' = [shown EXCEPT ![Head(due).id] =
                    IF @ < MaxShown THEN @ + 1 ELSE @]
    /\ mpc' = "update"
    /\ UNCHANGED <<reminders, rseq, now, rpc, running, due, tree, statusbar>>
    /\ UNCHANGED pvars

\* _show_popup builds a Tk window in the monitor thread: Tk may refuse it
\* (RuntimeError: main thread is not in main loop), _monitor has no handler
\* and the thread ends
_show_popup_raises ==
    /\ mpc = "for"
    /\ due # <<>>
    /\ mpc' = "dead"
    /\ UNCHANGED <<reminders, rseq, now, rpc, running, due, tree, statusbar, shown>>
    /\ UNCHANGED pvars

\* self.db.update_status(r["id"], "Prosrocheno"), and on to the next r
monitor_update_status ==
    /\ mpc = "update"
    /\ reminders' = update_status(reminders, Head(due).id, Prosrocheno)
    /\ due' = Tail(due)
    /\ mpc' = "for"
    /\ UNCHANGED <<rseq, now, rpc, running, tree, statusbar, shown>>
    /\ UNCHANGED pvars

\* the for loop is over: time.sleep(1), and back to the test of the while
monitor_sleep ==
    /\ mpc = "for"
    /\ due = <<>>
    /\ mpc' = "while"
    /\ UNCHANGED <<reminders, rseq, now, rpc, running, due, tree, statusbar, shown>>
    /\ UNCHANGED pvars

NextReminder ==
    \/ main
    \/ \E t \in Titles, d \in Descriptions, e \in DueEntries : add_reminder(t, d, e)
    \/ \E m \in QuickMinutes : set_quick_time(m)
    \/ \E i \in 1..MaxReminders : mark_as_done(i)
    \/ \E i \in 1..MaxReminders : delete_reminder(i)
    \/ \E yes \in BOOLEAN : on_closing(yes)
    \/ Tick
    \/ monitor_while
    \/ monitor_mark_overdue
    \/ monitor_get_due_reminders
    \/ _show_notification
    \/ _show_popup_raises
    \/ monitor_update_status
    \/ monitor_sleep

SpecReminder == Init /\ [][NextReminder]_vars

\* The monitor thread is scheduled: while it is alive its next statement is
\* executed; at a notification one of the two outcomes happens.
MonitorFairness ==
    /\ WF_vars(monitor_while)
    /\ WF_vars(monitor_mark_overdue)
    /\ WF_vars(monitor_get_due_reminders)
    /\ WF_vars(_show_notification \/ _show_popup_raises)
    /\ WF_vars(monitor_update_status)
    /\ WF_vars(monitor_sleep)

SpecPolling == SpecReminder /\ MonitorFairness

(***************************************************************************)
(* Properties                                                              *)
(***************************************************************************)
CredentialOps == {"add", "get", "list", "delete"}

NameCount(table, name) == Cardinality({r \in table : r.name = name})

\* C1: an add whose name already has a record replaces that record: after it
\* exactly one record has the name, it holds the login and the secret just
\* entered, and the process is still at the menu.
C1_AddReplacesExisting ==
    [][(pc = "menu" /\ op' = "add" /\ UniqueViolation(passwords, arg'.name))
        => /\ pc' = "menu"
           /\ NameCount(passwords', arg'.name) = 1
           /\ \A r \in passwords' :
                 r.name = arg'.name
                    => /\ r.login = arg'.login
                       /\ ~InvalidToken(The(key), r.password_encrypted)
                       /\ decrypt(The(key), r.password_encrypted) = arg'.password]_vars

\* C2: the menu is reached, and a credential operation executed, only in a
\* process in which verify_master_password has returned True, for an entry
\* that the stored master record verifies.
C2_OperationsOnlyAfterVerification ==
    (pc = "menu" \/ op # "")
        => verified /\ verify_master_password(master, pwd)

C2_Witness ==
    /\ op = "get"
    /\ out.kind = "found"
    /\ verified

\* C3: the process is locked exactly when three entries in a row were wrong;
\* an entry the master record verifies leads to the menu on the first, second
\* or third attempt, a wrong one is counted; a locked process executes no
\* operation and leaves the store alone.
C3_LockedState ==
    /\ (pc = "locked") <=> (failed = 3)
    /\ pc = "auth" => failed < 3
    /\ pc = "locked" => ~verified /\ op = "" /\ error = "SystemExit"

C3_Step ==
    /\ pc = "auth" =>
          IF verify_master_password(master, pwd')
          THEN pc' = "menu" /\ verified'
          ELSE /\ failed' = failed + 1
               /\ pc' = (IF failed' = 3 THEN "locked" ELSE "auth")
               /\ ~verified'
    /\ pc = "locked" => pc' \notin {"menu", "locked"} /\ op' = "" /\ disk' = disk

C3_LockoutAfterThreeFailures == []C3_LockedState /\ [][C3_Step]_vars

C3_Witness ==
    /\ pc = "locked"
    /\ failed = 3
    /\ passwords # {}

\* texts tried against the master record: the prompt entries and texts that
\* end like a salt or extend an entry
ProbeEntries == MasterEntries \cup {"b", "a0", "ab0", "abb0"}

\* C4: verify_master_password(q) is true exactly when a master record exists
\* and q is the password it was created from.
C4_VerifyExactlyMasterPassword ==
    \A q \in ProbeEntries :
        verify_master_password(master, q) = (master # {} /\ q = masterPlain)

C4_Witness ==
    /\ masterPlain = "ab"
    /\ pc = "auth"
    /\ failed > 0
    /\ pwd = "a"

\* C5: once authenticated, no error raised in a menu operation ends the
\* process: from the menu the process stays at the menu or exits by choice 0.
C5_MenuErrorsAreCaught ==
    [][pc = "menu" => (pc' = "menu" \/ (pc' = "exited" /\ op' = "exit")) /\ error' = ""]_vars

\* C6: while a name's last completed add has not been followed by a delete of
\* the name, get finds the record, decrypts it to the secret entered, shows
\* the login entered, and list holds the pair (name, login).
C6_StoreRoundTrip ==
    pc = "menu" =>
        \A n \in Names :
            entered[n] # None =>
                LET row == db_get_password(passwords, n)
                    listed == db_list_passwords(passwords)
                    want == The(entered[n])
                IN  /\ row # None
                    /\ The(row).login = want.login
                    /\ ~InvalidToken(The(key), The(row).password_encrypted)
                    /\ decrypt(The(key), The(row).password_encrypted) = want.secret
                    /\ \E i \in 1..Len(listed) :
                          listed[i] = [name |-> n, login |-> want.login]
                    /\ (op = "get" /\ arg.name = n) =>
                          out = [NoOut EXCEPT !.kind = "found",
                                              !.login = want.login,
                                              !.password = want.secret]

C6_Witness ==
    /\ pc = "menu"
    /\ op = "get"
    /\ out.kind = "found"
    /\ out.password = "hunter2"
    /\ out.login = "bob"
    /\ failed = 0
    /\ Cardinality(passwords) = 2

\* C7: no two rows of the passwords table have the same name.
C7_NamesUnique ==
    \A r \in passwords, q \in passwords : r.name = q.name => r = q

C7_Witness ==
    /\ pc = "crashed"
    /\ error = "IntegrityError"
    /\ op = "add"
    /\ Cardinality(passwords) = 2

\* C8: delete removes the rows of the name it read and no other row, leaves
\* the master record, the key file and the id counter alone, raises nothing,
\* and a get of that name then finds nothing; when no row has the name the
\* whole store is unchanged.
C8_DeleteFrame ==
    [][(pc = "menu" /\ op' = "delete")
        => /\ \A r \in passwords : r.name # arg'.name => r \in passwords'
           /\ \A r \in passwords' : r \in passwords /\ r.name # arg'.name
           /\ db_get_password(passwords', arg'.name) = None
           /\ (~ \E r \in passwords : r.name = arg'.name) => disk' = disk
           /\ <<master, keyFile, seq>>' = <<master, keyFile, seq>>
           /\ pc' = "menu"
           /\ error' = ""]_vars

C8_Witness ==
    /\ pc = "menu"
    /\ op = "delete"
    /\ seq = 2
    /\ Cardinality(passwords) = 1
    /\ \A r \in passwords : r.id = 1 /\ r.name # arg.name

\* a text precedes another when it is a proper prefix of it or is smaller at
\* the first position where they differ
C9_Ascending(a, b) ==
    \/ Len(a) < Len(b) /\ \A k \in 1..Len(a) : a[k] = b[k]
    \/ \E k \in 1..Len(a) :
          /\ k <= Len(b)
          /\ a[k] < b[k]
          /\ \A j \in 1..(k - 1) : a[j] = b[j]

\* C9: list returns one (name, login) pair per row, in ascending order of
\* name, each pair with the fields name and login only; the controller prints
\* these pairs and nothing of a secret.
C9_ListProjection ==
    LET listed == db_list_passwords(passwords)
    IN  /\ Len(listed) = Cardinality(passwords)
        /\ \A r \in passwords :
              \E i \in 1..Len(listed) : listed[i] = [name |-> r.name, login |-> r.login]
        /\ \A i \in 1..Len(listed) : DOMAIN listed[i] = {"name", "login"}
        /\ \A i \in 1..Len(listed), j \in 1..Len(listed) :
              i < j => C9_Ascending(listed[i].name, listed[j].name)
        /\ (op = "list" /\ pc = "menu") =>
              /\ out.rows = listed
              /\ out.kind = (IF listed = <<>> THEN "empty" ELSE "list")
              /\ out.password = "" /\ out.login = "" /\ out.generated = <<>>

C9_Witness ==
    /\ pc = "menu"
    /\ op = "list"
    /\ Len(out.rows) = 2
    /\ \E r \in passwords : r.id = 2 /\ r.name = out.rows[1].name

\* C10 as stated: a round of setup whose two entries differ persists nothing
\* and prompts again, a round whose two entries match persists the master
\* record for that password and ends setup.
C10_MatchingEntriesEndSetup ==
    [][pc = "setup" =>
          IF p1' # p2'
          THEN master' = master /\ pc' = "setup"
          ELSE verify_master_password(master', p1') /\ pc' = "auth"]_vars

C10_SetupEndsWithMaster == pc \notin {"off", "setup"} => master # {}

C10_Round ==
    pc = "setup" =>
        IF p1' # "" /\ p1' = p2'
        THEN /\ Cardinality(master') = 1
             /\ verify_master_password(master', p1')
             /\ pc' = "auth"
        ELSE master' = master /\ pc' = "setup"

\* C10, amended: a round whose two entries differ, or are both empty, persists
\* nothing and prompts again; a round whose two entries match and are not
\* empty persists the master record for that password and ends setup; setup
\* never ends while the master record is absent.
C10_SetupRounds == []C10_SetupEndsWithMaster /\ [][C10_Round]_vars

C10_Witness ==
    /\ pc = "setup"
    /\ out.kind = "mismatch"
    /\ p1 = ""
    /\ p2 = ""
    /\ master = {}

\* C11: the master table holds at most one row, with id 1; once the row
\* exists no step changes or removes it, in this process or a later one, and
\* a process started while it exists does not enter setup.
C11_AtMostOneRow ==
    /\ Cardinality(master) <= 1
    /\ \A m \in master : m.id = 1

C11_Step ==
    /\ master # {} => master' = master
    /\ (master # {} /\ ~Running) => pc' # "setup"

C11_MasterSingleton == []C11_AtMostOneRow /\ [][C11_Step]_vars

C11_Witness ==
    /\ pc = "auth"
    /\ p1 = ""
    /\ master # {}
    /\ passwords # {}

\* C12: the key file is written only while it is absent and never changes
\* afterwards; a running process holds the key of the file, and every stored
\* secret is a token made under that key.
C12_KeyState ==
    /\ Running => key # None /\ key = keyFile
    /\ \A r \in passwords :
          /\ keyFile # None
          /\ ~InvalidToken(The(keyFile), r.password_encrypted)
          /\ Running => ~InvalidToken(The(key), r.password_encrypted)

C12_KeyWrittenOnce == []C12_KeyState /\ [][keyFile # None => keyFile' = keyFile]_vars

C12_Witness ==
    /\ pc = "auth"
    /\ pwd = ""
    /\ passwords # {}
    /\ key = keyFile

\* C13: every stored secret is encrypt applied to the secret entered for that
\* name, and the master row holds the salted hash of the master password, not
\* the password.
C13_NoPlaintextStored ==
    /\ \A r \in passwords :
          /\ entered[r.name] # None
          /\ \E iv \in IVs :
                r.password_encrypted =
                    encrypt(The(keyFile), The(entered[r.name]).secret, iv)
    /\ \A m \in master :
          /\ m.password_hash = _hash_password(masterPlain, m.salt)
          /\ m.password_hash[1] = "sha256"

C13_Witness ==
    /\ pc = "menu"
    /\ op = "add"
    /\ Cardinality(passwords) = 2
    /\ master # {}

\* the files hold the result of the operations that have returned
C14_CompletedOnDisk ==
    /\ txn = None
    /\ (masterPlain = "") <=> (master = {})
    /\ master # {} => verify_master_password(master, masterPlain)
    /\ \A n \in Names :
          IF entered[n] = None
          THEN ~ \E r \in passwords : r.name = n
          ELSE \E r \in passwords :
                  /\ r.name = n
                  /\ r.login = The(entered[n]).login
                  /\ r.password_encrypted.data = The(entered[n]).secret

\* C14: between operations nothing is uncommitted, so a process stopped at any
\* such point leaves in the files the result of exactly the operations that
\* returned, and the process started next reads those files unchanged.
C14_CommittedBeforeReturn ==
    /\ []C14_CompletedOnDisk
    /\ [][(~Running \/ pc' = "off") => <<master, passwords, seq>>' = <<master, passwords, seq>>]_vars

C14_Witness ==
    /\ pc = "off"
    /\ seq = 2
    /\ Cardinality(passwords) = 1

\* C15: a length entry that is a number below 1 is rejected: an error is
\* reported, no password is printed, and the process is back at the menu.
C15_RejectsLengthBelowOne ==
    (op = "generate" /\ arg.entry # <<>> /\ ~ValueError(arg.entry) /\ int(arg.entry) < 1)
        => /\ pc = "menu"
           /\ out.kind # "generated"

\* the alphabet of the generator, written out
C16_Alphabet ==
    {"a", "b", "c", "d", "e", "f", "g", "h", "i", "j", "k", "l", "m", "n", "o", "p",
     "q", "r", "s", "t", "u", "v", "w", "x", "y", "z", "A", "B", "C", "D", "E", "F",
     "G", "H", "I", "J", "K", "L", "M", "N", "O", "P", "Q", "R", "S", "T", "U", "V",
     "W", "X", "Y", "Z", "0", "1", "2", "3", "4", "5", "6", "7", "8", "9", "!", "@",
     "#", "$", "%", "^", "&", "*", "(", ")"}

\* the length each entry asks for: 16 when nothing is entered
C16_Requested ==
    [e \in {<<>>, <<"2">>, <<"1", "2">>} |->
        IF e = <<>> THEN 16 ELSE IF e = <<"2">> THEN 2 ELSE 12]

\* C16: for an entry asking for n >= 1 characters (16 when nothing is
\* entered) the generator prints exactly n characters of the alphabet.
C16_GeneratedLength ==
    (op = "generate" /\ arg.entry \in DOMAIN C16_Requested)
        => /\ pc = "menu"
           /\ out.kind = "generated"
           /\ Len(out.generated) = C16_Requested[arg.entry]
           /\ \A i \in 1..Len(out.generated) : out.generated[i] \in C16_Alphabet

C16_Witness ==
    /\ op = "generate"
    /\ arg.entry = <<>>
    /\ Len(out.generated) = 16
    /\ \E i \in 1..16 : out.generated[i] # out.generated[1]

\* C17: from the menu, choice 0 ends the process normally and every other
\* choice is followed by the menu again; a process that has ended has ended
\* by choice 0 or by the lockout.
C17_EndsOnlyByExitOrLockout ==
    /\ [][pc = "menu" =>
            IF op' = "exit" THEN pc' = "exited" /\ error' = "" ELSE pc' = "menu"]_vars
    /\ [](Ended => \/ pc = "exited" /\ op = "exit" /\ error = ""
                   \/ pc = "locked" /\ error = "SystemExit")

\* C18: get, list, generate, an unrecognised choice and a wrong entry at the
\* master-password prompt leave the database, the key file and the
\* connection's transaction as they were.
C18_ReadOnlyOperations ==
    [][(\/ pc = "menu" /\ op' \in {"get", "list", "generate", "invalid"}
        \/ pc = "auth" /\ failed' = failed + 1)
        => disk' = disk /\ txn' = txn]_vars

C18_Witness ==
    /\ pc = "menu"
    /\ op = "get"
    /\ out.kind = "not found"
    /\ passwords # {}

\* C19: the count of wrong entries belongs to the process: the lockout step
\* and the start of the next process leave the files unchanged, the next
\* process starts with a count of 0 and is locked at its own third wrong
\* entry, so the wrong entries over all processes exceed 3.
C19_CountState ==
    /\ failed <= 3
    /\ pc = "auth" => failed < 3

C19_Step ==
    /\ pc' = "locked" => disk' = disk
    /\ pc = "locked" => pc' = "auth" /\ failed' = 0 /\ disk' = disk
    /\ (pc = "auth" /\ failed' = failed + 1) =>
          pc' = (IF failed' = 3 THEN "locked" ELSE "auth")

C19_AttemptsPerProcess == []C19_CountState /\ [][C19_Step]_vars

C19_Witness ==
    /\ wrong > 3
    /\ pc = "auth"
    /\ failed = 1

\* C20: in one process of the reminder application every reminder is notified
\* at most once: a notification is shown only for the row at the head of
\* due, which the SELECT of this poll read with status 'Ozhidaet'; the
\* monitor's next step sets that row's status to 'Prosrocheno'; no step
\* makes the status of an existing row 'Ozhidaet' again or gives a new row
\* an id that was used before.
C20_AtMostOnce == \A i \in 1..MaxReminders : shown[i] <= 1

C20_Step ==
    /\ \A i \in 1..MaxReminders :
          shown'[i] > shown[i] =>
             /\ mpc = "for" /\ due # <<>>
             /\ Head(due).id = i
             /\ Head(due).status = Ozhidaet
             /\ mpc' = "update" /\ due' = due
    /\ (mpc = "update" /\ mpc' = "for") =>
          \A r \in reminders' : r.id = Head(due).id => r.status = Prosrocheno
    /\ \A r \in reminders' :
          r.status = Ozhidaet =>
             \/ r \in reminders
             \/ r.id > rseq /\ \A q \in reminders : q.id # r.id
    /\ rseq' >= rseq

C20_NotifiedAtMostOnce == []C20_AtMostOnce /\ [][C20_Step]_vars

C20_Witness ==
    /\ mpc = "mark"
    /\ \E r \in reminders : r.status = Prosrocheno /\ shown[r.id] = 1
    /\ \E r \in reminders : r.status = Ozhidaet

\* C21: whatever the interleaving of the monitor thread with the GUI thread,
\* a row whose status is 'Gotovo' keeps that status as long as it is in the
\* table, and an id that has been deleted is never in the table again.
C21_Step ==
    /\ \A r \in reminders : \A q \in reminders' :
          (q.id = r.id /\ r.status = Gotovo) => q.status = Gotovo
    /\ \A q \in reminders' :
          q.id <= rseq => \E r \in reminders : r.id = q.id

C21_DoneStaysDone == [][C21_Step]_vars

\* C22: if the monitor thread keeps polling, every row with status
\* 'Ozhidaet' whose due time has been reached is eventually shown as a
\* notification; and no row goes from 'Ozhidaet' to 'Prosrocheno' unless a
\* notification has been shown for it.
C22_Reached(i) ==
    \E r \in reminders :
        r.id = i /\ r.status = Ozhidaet /\ strptime(r.due_time) <= now

C22_KeepsPolling == []<>(mpc = "mark")

C22_Step ==
    \A r \in reminders : \A q \in reminders' :
        (q.id = r.id /\ r.status = Ozhidaet /\ q.status = Prosrocheno)
            => shown[r.id] >= 1

C22_DueRemindersAreNotified ==
    /\ C22_KeepsPolling =>
          \A i \in 1..MaxReminders : C22_Reached(i) ~> (shown[i] >= 1)
    /\ [][C22_Step]_vars

====
